---- MODULE Spec2Model ----
(***************************************************************************)
(* Model of djangae.contrib.googleauth.models: the UserManager factory and *)
(* backend dispatch, the AnonymousUser null object, the                    *)
(* AppOAuthCredentials singleton and the OAuthUserSession table.           *)
(*                                                                         *)
(* Python values are written as strings: "None", "True", "False", "1".     *)
(* A table is a set of rows; the uniqueness of a key is enforced by the    *)
(* operators that write the table, never by the representation.            *)
(***************************************************************************)
EXTENDS Integers, Sequences, FiniteSets, TLC

VARIABLES
    users,      \* rows of the User table
    next_id,    \* next value of the User table's automatic primary key
    sessions,   \* rows of the OAuthUserSession table
    now,        \* the clock
    creds,      \* rows of the AppOAuthCredentials table
    pc,         \* per request: position inside get_or_create
    kwargs,     \* per request: the defaults it passed to get_or_create
    result,     \* per request: what get_or_create returned
    backends,   \* the configured authentication backends (dotted paths, in order)
    anons,      \* the AnonymousUser instances constructed so far: oid -> fields
    ret         \* the last call: operation, arguments, outcome

vars == <<users, next_id, sessions, now, creds, pc, kwargs, result, backends, anons, ret>>

-----------------------------------------------------------------------------
(* Bounds *)

MaxUsers == 2
MaxTime == 2
NumRequests == 2
MaxBackends == 2
MaxAnon == 2
MaxPermList == 2

-----------------------------------------------------------------------------
(* Outcomes of a call *)

Return(value) == [kind |-> "return", value |-> value]

Raise(kind) == [kind |-> kind, value |-> "None"]

NoCall == [op |-> "", args |-> <<>>, kind |-> "", value |-> "None"]

Call(op, args, out) == [op |-> op, args |-> args, kind |-> out.kind, value |-> out.value]

-----------------------------------------------------------------------------
(* UserManager: _create_user, create_user, create_superuser *)

Usernames == {"", "None", "alice", "<U+212A>ate"}

Emails == {"Alice@EXAMPLE.com"}

Passwords == {"pw"}

FlagValues == {"True", "False", "1"}

ExtraFields == UNION {[D -> FlagValues] : D \in SUBSET {"is_staff", "is_superuser"}}

\* `not x` for the values a username takes: the empty string and None are falsy
Falsy(x) == x \in {"", "None"}

\* BaseUserManager.normalize_email: None becomes '', the domain part is lower-cased
normalize_email(email) ==
    CASE email = "None" -> ""
      [] email = "Alice@EXAMPLE.com" -> "Alice@example.com"
      [] OTHER -> email

\* AbstractBaseUser.normalize_username: NFKC (the Kelvin sign U+212A becomes K)
normalize_username(username) ==
    IF username = "<U+212A>ate" THEN "Kate" ELSE username

\* dict.setdefault
setdefault(d, key, default) ==
    IF key \in DOMAIN d THEN d ELSE d @@ (key :> default)

\* dict.get, None when the key is absent
get(d, key) == IF key \in DOMAIN d THEN d[key] ELSE "None"

\* self.model(username=..., email=..., **extra_fields): an unsaved instance,
\* the fields not given taking the defaults the User class declares
Model(username, email, extra_fields) ==
    [id |-> "None",
     username |-> username,
     email |-> email,
     password |-> "",
     is_staff |-> IF "is_staff" \in DOMAIN extra_fields
                  THEN extra_fields["is_staff"] ELSE "False",
     is_superuser |-> IF "is_superuser" \in DOMAIN extra_fields
                      THEN extra_fields["is_superuser"] ELSE "False",
     is_active |-> "True"]

\* AbstractBaseUser.set_password: the hash of the raw password, or an
\* unusable password for None
set_password(user, raw_password) ==
    [user EXCEPT !.password =
        IF raw_password = "None" THEN "!unusable" ELSE "pbkdf2$" \o raw_password]

\* user.save() of a new instance: an INSERT that takes the next automatic id;
\* the unique username refuses a second row of the same name
save(store, user) ==
    IF \E r \in store.rows : r.username = user.username
    THEN [out |-> Raise("IntegrityError"), store |-> store]
    ELSE LET saved == [user EXCEPT !.id = store.next]
         IN [out |-> Return(saved),
             store |-> [rows |-> store.rows \cup {saved}, next |-> store.next + 1]]

\* _create_user testing `username is None` where the code tests `not username`
_create_user_none_only(store, username, email, password, extra_fields) ==
    IF username = "None"
    THEN [out |-> Raise("ValueError"), store |-> store]
    ELSE LET user == Model(normalize_username(username), normalize_email(email),
                           extra_fields)
         IN save(store, set_password(user, password))

_create_user(store, username, email, password, extra_fields) ==
    IF Falsy(username)
    THEN [out |-> Raise("ValueError"), store |-> store]
    ELSE LET user == Model(normalize_username(username), normalize_email(email),
                           extra_fields)
         IN save(store, set_password(user, password))

create_user(store, username, email, password, extra_fields) ==
    LET e1 == setdefault(extra_fields, "is_staff", "False")
        e2 == setdefault(e1, "is_superuser", "False")
    IN _create_user(store, username, email, password, e2)

\* create_superuser comparing the flags with `!= True` where the code compares
\* with `is not True`: 1 == True in Python
create_superuser_equality(store, username, email, password, extra_fields) ==
    LET e1 == setdefault(extra_fields, "is_staff", "True")
        e2 == setdefault(e1, "is_superuser", "True")
    IN IF get(e2, "is_staff") \notin {"True", "1"}
       THEN [out |-> Raise("ValueError"), store |-> store]
       ELSE IF get(e2, "is_superuser") \notin {"True", "1"}
       THEN [out |-> Raise("ValueError"), store |-> store]
       ELSE _create_user(store, username, email, password, e2)

create_superuser(store, username, email, password, extra_fields) ==
    LET e1 == setdefault(extra_fields, "is_staff", "True")
        e2 == setdefault(e1, "is_superuser", "True")
    IN IF get(e2, "is_staff") # "True"
       THEN [out |-> Raise("ValueError"), store |-> store]
       ELSE IF get(e2, "is_superuser") # "True"
       THEN [out |-> Raise("ValueError"), store |-> store]
       ELSE _create_user(store, username, email, password, e2)

Store == [rows |-> users, next |-> next_id]

UserCall(op, username, extra_fields, res) ==
    /\ res.store.next <= MaxUsers + 1
    /\ users' = res.store.rows
    /\ next_id' = res.store.next
    /\ ret' = Call(op, <<username, extra_fields>>, res.out)
    /\ UNCHANGED <<sessions, now, creds, pc, kwargs, result, backends, anons>>

CreateUser ==
    \E username \in Usernames, email \in Emails, password \in Passwords,
       extra_fields \in ExtraFields :
        UserCall("create_user", username, extra_fields,
                 create_user(Store, username, email, password, extra_fields))

CreateSuperuser ==
    \E username \in Usernames, email \in Emails, password \in Passwords,
       extra_fields \in ExtraFields :
        UserCall("create_superuser", username, extra_fields,
                 create_superuser(Store, username, email, password, extra_fields))

-----------------------------------------------------------------------------
(* UserManager.with_perm *)

\* The importable backend classes, by dotted path, and whether each defines
\* with_perm; any other path does not import
BackendClasses ==
    [p \in {"auth.PermBackend", "auth.OtherPermBackend", "auth.PlainBackend"} |->
        [with_perm |-> p # "auth.PlainBackend"]]

BackendPaths == DOMAIN BackendClasses

Perms == {"app.view", "app.change", "app.delete"}

Objs == {"None", "obj1"}

Bools == {"True", "False"}

\* What a caller passes as `backend`: None, a dotted path, or a backend instance
BackendArgs ==
    {[type |-> "NoneType", value |-> "None"]}
    \cup {[type |-> "str", value |-> p] : p \in BackendPaths \cup {"no.such.Backend"}}
    \cup {[type |-> "object", value |-> "auth.PermBackend"]}

BoundedSeq(S, n) == UNION {[1..k -> S] : k \in 0..n}

\* _get_backends(return_tuples=True) as with_perm sees it: the (backend, path)
\* tuples of the configured backends; with none configured the helper may
\* return the empty list or raise ImproperlyConfigured itself
GetBackendsOutcomes(configured) ==
    {Return([i \in 1..Len(configured) |-> <<configured[i], configured[i]>>])}
    \cup (IF Len(configured) = 0
          THEN {[kind |-> "ImproperlyConfigured", value |-> <<>>]} ELSE {})

\* load_backend(path) as with_perm sees it: an instance of the class at the
\* path, or ImportError
LoadBackend(path) ==
    IF path \in BackendPaths THEN Return(path) ELSE Raise("ImportError")

\* hasattr(backend, 'with_perm')
hasattr_with_perm(backend) == BackendClasses[backend].with_perm

\* backend.with_perm(perm, is_active=..., include_superusers=..., obj=...):
\* the queryset that backend answers for these arguments
backend_with_perm(backend, perm, is_active, include_superusers, obj) ==
    [qs |-> "backend", backend |-> backend,
     query |-> <<perm, is_active, include_superusers, obj>>]

\* self.none(): the empty queryset
none == [qs |-> "none", backend |-> "None", query |-> <<>>]

PermOut(kind, value, selected, calls) ==
    [kind |-> kind, value |-> value, selected |-> selected, calls |-> calls]

\* the dispatch leaving is_active to the backend's default
dispatch_default_filter(backend, perm, is_active, include_superusers, obj) ==
    IF hasattr_with_perm(backend)
    THEN PermOut("return",
                 backend_with_perm(backend, perm, "True", include_superusers, obj),
                 backend,
                 <<(<<backend, perm, "True", include_superusers, obj>>)>>)
    ELSE PermOut("return", none, backend, <<>>)

\* the tail of with_perm, once `backend` is bound
dispatch(backend, perm, is_active, include_superusers, obj) ==
    IF hasattr_with_perm(backend)
    THEN PermOut("return",
                 backend_with_perm(backend, perm, is_active, include_superusers, obj),
                 backend,
                 <<(<<backend, perm, is_active, include_superusers, obj>>)>>)
    ELSE PermOut("return", none, backend, <<>>)

\* with_perm taking the first configured backend whenever there is one
with_perm_first_backend(got, perm, is_active, include_superusers, backend, obj) ==
    IF backend.type = "NoneType"
    THEN IF got.kind # "return"
         THEN PermOut(got.kind, "None", "None", <<>>)
         ELSE IF Len(got.value) >= 1
         THEN dispatch(got.value[1][1], perm, is_active, include_superusers, obj)
         ELSE PermOut("ValueError", "None", "None", <<>>)
    ELSE IF backend.type # "str"
    THEN PermOut("TypeError", "None", "None", <<>>)
    ELSE LET loaded == LoadBackend(backend.value)
         IN IF loaded.kind # "return"
            THEN PermOut(loaded.kind, "None", "None", <<>>)
            ELSE dispatch(loaded.value, perm, is_active, include_superusers, obj)

with_perm(got, perm, is_active, include_superusers, backend, obj) ==
    IF backend.type = "NoneType"
    THEN IF got.kind # "return"
         THEN PermOut(got.kind, "None", "None", <<>>)
         ELSE IF Len(got.value) = 1
         THEN dispatch(got.value[1][1], perm, is_active, include_superusers, obj)
         ELSE PermOut("ValueError", "None", "None", <<>>)
    ELSE IF backend.type # "str"
    THEN PermOut("TypeError", "None", "None", <<>>)
    ELSE LET loaded == LoadBackend(backend.value)
         IN IF loaded.kind # "return"
            THEN PermOut(loaded.kind, "None", "None", <<>>)
            ELSE dispatch(loaded.value, perm, is_active, include_superusers, obj)

WithPerm ==
    \E perm \in Perms, is_active \in Bools, include_superusers \in Bools,
       backend \in BackendArgs, obj \in Objs, got \in GetBackendsOutcomes(backends) :
        LET out == with_perm(got, perm, is_active, include_superusers, backend, obj)
        IN /\ ret' = [op |-> "with_perm",
                      args |-> <<perm, is_active, include_superusers, backend, obj>>,
                      kind |-> out.kind, value |-> out.value,
                      selected |-> out.selected, calls |-> out.calls]
           /\ UNCHANGED <<users, next_id, sessions, now, creds, pc, kwargs, result,
                          backends, anons>>

-----------------------------------------------------------------------------
(* AnonymousUser *)

\* The class attributes every AnonymousUser instance starts with
AnonymousUser ==
    [id |-> "None", pk |-> "None", username |-> "",
     is_staff |-> "False", is_active |-> "False", is_superuser |-> "False"]

\* An object is its class and its identity within the class
AnonInstances == {[cls |-> "AnonymousUser", oid |-> i] : i \in DOMAIN anons}

\* Values that are not AnonymousUser instances: a saved User, the int 1 (the
\* value __hash__ returns), None and the string 'AnonymousUser' (its __str__)
OtherValues ==
    {[cls |-> "User", oid |-> 1], [cls |-> "int", oid |-> 1],
     [cls |-> "NoneType", oid |-> 0], [cls |-> "str", oid |-> 0]}

\* isinstance(obj, cls): none of these classes derives from another
isinstance(obj, cls) == obj.cls = cls

PyBool(b) == IF b THEN "True" ELSE "False"

\* equality by identity
eq_identity(self, other) == Return(PyBool(other = self))

__eq__(self, other) == Return(PyBool(isinstance(other, self.cls)))

__hash__(self) == Return(1)

__int__(self) == Raise("TypeError")

\* a save that writes the instance to the User table
anon_save_persists(fields, rows) ==
    [out |-> Return("None"), fields |-> fields,
     rows |-> rows \cup {[id |-> "None", username |-> fields.username, email |-> "",
                          password |-> "", is_staff |-> fields.is_staff,
                          is_superuser |-> fields.is_superuser,
                          is_active |-> fields.is_active]}]

\* The four mutators: what is raised, and the instance and the User table after
anon_save(fields, rows) ==
    [out |-> Raise("NotImplementedError"), fields |-> fields, rows |-> rows]

anon_delete(fields, rows) ==
    [out |-> Raise("NotImplementedError"), fields |-> fields, rows |-> rows]

anon_set_password(fields, rows, raw_password) ==
    [out |-> Raise("NotImplementedError"), fields |-> fields, rows |-> rows]

anon_check_password(fields, rows, raw_password) ==
    [out |-> Raise("NotImplementedError"), fields |-> fields, rows |-> rows]

has_perm(self, perm, obj) == "False"

\* all(iterable) over the values of a generator
RECURSIVE all(_)
all(values) ==
    IF values = <<>> THEN "True"
    ELSE IF Head(values) # "True" THEN "False"
    ELSE all(Tail(values))

\* any(...) where the code has all(...)
RECURSIVE any(_)
any(values) ==
    IF values = <<>> THEN "False"
    ELSE IF Head(values) = "True" THEN "True"
    ELSE any(Tail(values))

has_perms_any(self, perm_list, obj) ==
    any([i \in 1..Len(perm_list) |-> has_perm(self, perm_list[i], obj)])

has_perms(self, perm_list, obj) ==
    all([i \in 1..Len(perm_list) |-> has_perm(self, perm_list[i], obj)])

has_module_perms(self, module) == "False"

is_anonymous(self) == "True"

is_authenticated(self) == "False"

\* AnonymousUser(): one more instance, as each unauthenticated request makes
NewAnonymousUser ==
    /\ Len(anons) < MaxAnon
    /\ anons' = Append(anons, AnonymousUser)
    /\ ret' = [op |-> "AnonymousUser", args |-> <<>>, kind |-> "return",
               value |-> "None"]
    /\ UNCHANGED <<users, next_id, sessions, now, creds, pc, kwargs, result, backends>>

AnonMutate(op, i, args, res) ==
    /\ anons' = [anons EXCEPT ![i] = res.fields]
    /\ users' = res.rows
    /\ ret' = Call(op, <<i>> \o args, res.out)
    /\ UNCHANGED <<next_id, sessions, now, creds, pc, kwargs, result, backends>>

AnonSave == \E i \in DOMAIN anons :
    AnonMutate("save", i, <<>>, anon_save(anons[i], users))

AnonDelete == \E i \in DOMAIN anons :
    AnonMutate("delete", i, <<>>, anon_delete(anons[i], users))

AnonSetPassword == \E i \in DOMAIN anons, raw_password \in Passwords \cup {"None"} :
    AnonMutate("set_password", i, <<raw_password>>,
               anon_set_password(anons[i], users, raw_password))

AnonCheckPassword == \E i \in DOMAIN anons, raw_password \in Passwords \cup {"None"} :
    AnonMutate("check_password", i, <<raw_password>>,
               anon_check_password(anons[i], users, raw_password))

AnonQuery(op, i, args, out) ==
    /\ ret' = Call(op, <<i>> \o args, out)
    /\ UNCHANGED <<users, next_id, sessions, now, creds, pc, kwargs, result,
                   backends, anons>>

AnonHasPerm == \E i \in DOMAIN anons, perm \in Perms, obj \in Objs :
    AnonQuery("has_perm", i, <<perm, obj>>, Return(has_perm(anons[i], perm, obj)))

AnonHasPerms ==
    \E i \in DOMAIN anons, perm_list \in BoundedSeq(Perms, MaxPermList), obj \in Objs :
        AnonQuery("has_perms", i, <<perm_list, obj>>,
                  Return(has_perms(anons[i], perm_list, obj)))

AnonHasModulePerms == \E i \in DOMAIN anons, module \in {"app", "auth"} :
    AnonQuery("has_module_perms", i, <<module>>,
              Return(has_module_perms(anons[i], module)))

AnonIsAnonymous == \E i \in DOMAIN anons :
    AnonQuery("is_anonymous", i, <<>>, Return(is_anonymous(anons[i])))

AnonIsAuthenticated == \E i \in DOMAIN anons :
    AnonQuery("is_authenticated", i, <<>>, Return(is_authenticated(anons[i])))

AnonEq == \E self \in AnonInstances, other \in AnonInstances \cup OtherValues :
    AnonQuery("__eq__", self.oid, <<other>>, __eq__(self, other))

AnonHash == \E self \in AnonInstances :
    AnonQuery("__hash__", self.oid, <<>>, __hash__(self))

AnonInt == \E self \in AnonInstances :
    AnonQuery("__int__", self.oid, <<>>, __int__(self))

-----------------------------------------------------------------------------
(* AppOAuthCredentials *)

\* djangae.environment.application_id(): the identity of this deployment
application_id == "app-1"

ClientIds == {"id-A", "id-B"}

ClientSecrets == {"secret"}

\* the keyword arguments a caller gives get_or_create
CredentialDefaults ==
    UNION {[D -> ClientIds] : D \in SUBSET {"client_id"}}
    \cup {("client_secret" :> x) : x \in ClientSecrets}
    \cup {("client_id" :> c) @@ ("client_secret" :> x) :
            c \in ClientIds, x \in ClientSecrets}

\* AppOAuthCredentials(id=pk, **defaults): the fields not given are ""
AppOAuthCredentials(pk, defaults) ==
    [id |-> pk,
     client_id |-> IF "client_id" \in DOMAIN defaults THEN defaults["client_id"] ELSE "",
     client_secret |-> IF "client_secret" \in DOMAIN defaults
                       THEN defaults["client_secret"] ELSE ""]

\* objects.get(pk=...): the row of that primary key, or DoesNotExist
objects_get(table, pk) ==
    IF \E r \in table : r.id = pk
    THEN Return(CHOOSE r \in table : r.id = pk)
    ELSE Raise("DoesNotExist")

\* a create that does not enforce the primary key
objects_create_unchecked(table, row) ==
    [out |-> Return(row), table |-> table \cup {row}]

\* objects.create(...): an INSERT; `id` is the primary key, so a row of the
\* same id makes it fail with IntegrityError
objects_create(table, row) ==
    IF \E r \in table : r.id = row.id
    THEN [out |-> Raise("IntegrityError"), table |-> table]
    ELSE [out |-> Return(row), table |-> table \cup {row}]

\* AppOAuthCredentials.get()
CredsGet ==
    /\ ret' = Call("get", <<>>, objects_get(creds, application_id))
    /\ UNCHANGED <<users, next_id, sessions, now, creds, pc, kwargs, result,
                   backends, anons>>

\* get_or_create(**kwargs) is objects.get_or_create(pk=application_id(),
\* defaults=kwargs)[0]; the manager runs it as three queries, and the queries
\* of concurrent requests interleave: a get, on DoesNotExist a create, and on
\* the create's IntegrityError a second get.
GetOrCreateGet(p) ==
    /\ pc[p] = "idle"
    /\ \E defaults \in CredentialDefaults :
        LET got == objects_get(creds, application_id)
        IN /\ kwargs' = [kwargs EXCEPT ![p] = defaults]
           /\ IF got.kind = "return"
              THEN /\ result' = [result EXCEPT ![p] = got.value]
                   /\ pc' = [pc EXCEPT ![p] = "done"]
              ELSE /\ result' = [result EXCEPT ![p] = "None"]
                   /\ pc' = [pc EXCEPT ![p] = "create"]
    /\ UNCHANGED <<users, next_id, sessions, now, creds, backends, anons, ret>>

GetOrCreateCreate(p) ==
    /\ pc[p] = "create"
    /\ LET made == objects_create(creds, AppOAuthCredentials(application_id, kwargs[p]))
       IN /\ creds' = made.table
          /\ IF made.out.kind = "return"
             THEN /\ result' = [result EXCEPT ![p] = made.out.value]
                  /\ pc' = [pc EXCEPT ![p] = "done"]
             ELSE /\ result' = result
                  /\ pc' = [pc EXCEPT ![p] = "retry"]
    /\ UNCHANGED <<users, next_id, sessions, now, kwargs, backends, anons, ret>>

GetOrCreateRetry(p) ==
    /\ pc[p] = "retry"
    /\ LET got == objects_get(creds, application_id)
       IN IF got.kind = "return"
          THEN /\ result' = [result EXCEPT ![p] = got.value]
               /\ pc' = [pc EXCEPT ![p] = "done"]
          ELSE /\ result' = result
               /\ pc' = [pc EXCEPT ![p] = "raised"]
    /\ UNCHANGED <<users, next_id, sessions, now, creds, kwargs, backends, anons, ret>>

-----------------------------------------------------------------------------
(* OAuthUserSession *)

\* The token bundles an exchange may deliver: the tokens, and expires_at as the
\* string the CharField holds ("" when the provider sent none)
Tokens == {"", "token"}

ExpiresAt == {""} \cup {ToString(t) : t \in 0..MaxTime}

OAuthUserSession(user, token, expires_at) ==
    [user |-> user.id, access_token |-> token, refresh_token |-> token,
     expires_at |-> expires_at]

\* a save that always inserts
session_save_insert(table, row) == table \cup {row}

\* session.save(): `user` is the primary key, so the row of that user is
\* replaced if there is one and inserted otherwise
session_save(table, row) ==
    {r \in table : r.user # row.user} \cup {row}

\* user.delete(): on_delete=CASCADE removes the rows that reference the user
user_delete(rows, table, user) ==
    [rows |-> rows \ {user}, table |-> {r \in table : r.user # user.id}]

\* def is_valid(self): pass
is_valid(self) == Return("None")

\* def refresh(self): pass
refresh(self) == [out |-> Return("None"), self |-> self]

\* create_user(username) with its defaults: email=None, password=None
NewUser ==
    \E username \in {"alice", "<U+212A>ate"} :
        UserCall("create_user", username, <<>>,
                 create_user(Store, username, "None", "None", <<>>))

DeleteUser ==
    \E user \in users :
        LET after == user_delete(users, sessions, user)
        IN /\ users' = after.rows
           /\ sessions' = after.table
           /\ ret' = Call("user.delete", <<user.id>>, Return("None"))
           /\ UNCHANGED <<next_id, now, creds, pc, kwargs, result, backends, anons>>

\* The OAuth2 callback, after a successful authorization-code exchange, stores
\* the token bundle against the identity
Exchange ==
    \E user \in users, token \in Tokens, expires_at \in ExpiresAt :
        /\ sessions' = session_save(sessions, OAuthUserSession(user, token, expires_at))
        /\ ret' = Call("exchange", <<user.id>>, Return("None"))
        /\ UNCHANGED <<users, next_id, now, creds, pc, kwargs, result, backends, anons>>

Refresh ==
    \E self \in sessions :
        LET res == refresh(self)
        IN /\ sessions' = session_save(sessions, res.self)
           /\ ret' = Call("refresh", <<self>>, res.out)
           /\ UNCHANGED <<users, next_id, now, creds, pc, kwargs, result, backends, anons>>

IsValid ==
    \E self \in sessions :
        /\ ret' = Call("is_valid", <<self, now>>, is_valid(self))
        /\ UNCHANGED <<users, next_id, sessions, now, creds, pc, kwargs, result,
                       backends, anons>>

Tick ==
    /\ now < MaxTime
    /\ now' = now + 1
    /\ UNCHANGED <<users, next_id, sessions, creds, pc, kwargs, result, backends,
                   anons, ret>>

-----------------------------------------------------------------------------
(* Specifications *)

Init ==
    /\ users = {}
    /\ next_id = 1
    /\ sessions = {}
    /\ now = 0
    /\ creds = {}
    /\ pc = [p \in 1..NumRequests |-> "idle"]
    /\ kwargs = [p \in 1..NumRequests |-> <<>>]
    /\ result = [p \in 1..NumRequests |-> "None"]
    /\ backends = <<>>
    /\ anons = <<>>
    /\ ret = NoCall

NextUsers == CreateUser \/ CreateSuperuser

SpecUsers == Init /\ [][NextUsers]_vars

\* the deployment's AUTHENTICATION_BACKENDS setting is fixed at start-up
InitPerm ==
    /\ users = {}
    /\ next_id = 1
    /\ sessions = {}
    /\ now = 0
    /\ creds = {}
    /\ pc = [p \in 1..NumRequests |-> "idle"]
    /\ kwargs = [p \in 1..NumRequests |-> <<>>]
    /\ result = [p \in 1..NumRequests |-> "None"]
    /\ backends \in BoundedSeq(BackendPaths, MaxBackends)
    /\ anons = <<>>
    /\ ret = NoCall

NextPerm == WithPerm

SpecPerm == InitPerm /\ [][NextPerm]_vars

NextAnon ==
    \/ NewAnonymousUser
    \/ AnonSave
    \/ AnonDelete
    \/ AnonSetPassword
    \/ AnonCheckPassword
    \/ AnonHasPerm
    \/ AnonHasPerms
    \/ AnonHasModulePerms
    \/ AnonIsAnonymous
    \/ AnonIsAuthenticated
    \/ AnonEq
    \/ AnonHash
    \/ AnonInt

SpecAnon == Init /\ [][NextAnon]_vars

NextCreds ==
    \/ CredsGet
    \/ \E p \in 1..NumRequests : GetOrCreateGet(p)
    \/ \E p \in 1..NumRequests : GetOrCreateCreate(p)
    \/ \E p \in 1..NumRequests : GetOrCreateRetry(p)

SpecCreds == Init /\ [][NextCreds]_vars

NextSessions ==
    \/ NewUser
    \/ DeleteUser
    \/ Exchange
    \/ Refresh
    \/ IsValid
    \/ Tick

SpecSessions == Init /\ [][NextSessions]_vars

-----------------------------------------------------------------------------
(* Properties *)

ExplicitNotTrue(extra_fields, key) ==
    key \in DOMAIN extra_fields /\ extra_fields[key] # "True"

\* C1: a create_superuser call that returns yields a user that is in the User
\* table with is_staff and is_superuser True; a call that passes is_staff or
\* is_superuser with a value that is not exactly True raises ValueError and
\* leaves the User table (and its id counter) as it was.
C1_CreateSuperuser ==
    /\ [](ret.op = "create_superuser" =>
            /\ ret.kind = "return" =>
                /\ ret.value \in users
                /\ ret.value.is_staff = "True"
                /\ ret.value.is_superuser = "True"
            /\ (ExplicitNotTrue(ret.args[2], "is_staff")
                \/ ExplicitNotTrue(ret.args[2], "is_superuser")) =>
                ret.kind = "ValueError")
    /\ [][(/\ ret'.op = "create_superuser"
           /\ (ExplicitNotTrue(ret'.args[2], "is_staff")
               \/ ExplicitNotTrue(ret'.args[2], "is_superuser")))
          => (users' = users /\ next_id' = next_id)]_vars

\* a superuser is stored, and a later call passing is_staff=False was refused
C1_Witness ==
    /\ ret.op = "create_superuser"
    /\ ret.kind = "ValueError"
    /\ ~Falsy(ret.args[1])
    /\ ExplicitNotTrue(ret.args[2], "is_staff")
    /\ \E u \in users : u.is_staff = "True" /\ u.is_superuser = "True"

\* C2: create_user and create_superuser with an empty username ('' or None)
\* raise ValueError and leave the User table and its id counter unchanged.
C2_EmptyUsername ==
    [][(ret'.op \in {"create_user", "create_superuser"} /\ Falsy(ret'.args[1]))
       => (ret'.kind = "ValueError" /\ users' = users /\ next_id' = next_id)]_vars

C2_Witness ==
    /\ ret.op = "create_user"
    /\ ret.args[1] = ""
    /\ ret.kind = "ValueError"
    /\ users # {}

ConfigurationErrors == {"ValueError", "ImproperlyConfigured"}

\* C3: with_perm without a backend argument raises a configuration error and
\* calls no backend when zero or at least two backends are configured; with
\* exactly one configured it selects that backend and returns without error,
\* calling no other backend.
C3_BackendSelection ==
    (ret.op = "with_perm" /\ ret.args[4].type = "NoneType") =>
        IF Len(backends) = 1
        THEN /\ ret.kind = "return"
             /\ ret.selected = backends[1]
             /\ \A i \in DOMAIN ret.calls : ret.calls[i][1] = backends[1]
             /\ hasattr_with_perm(backends[1]) => Len(ret.calls) = 1
        ELSE /\ ret.kind \in ConfigurationErrors
             /\ ret.selected = "None"
             /\ ret.calls = <<>>

C3_Witness ==
    /\ ret.op = "with_perm"
    /\ ret.args[4].type = "NoneType"
    /\ Len(backends) >= 2
    /\ ret.kind = "ValueError"

\* the backend with_perm has in hand after selection: the one loaded from an
\* importable path, or the single configured one
SelectedBackend(backend) ==
    IF backend.type = "str" /\ backend.value \in BackendPaths THEN backend.value
    ELSE IF backend.type = "NoneType" /\ Len(backends) = 1 THEN backends[1]
    ELSE "None"

\* C4: once a backend is selected, with_perm returns the empty queryset and
\* raises nothing if the backend has no with_perm, and otherwise returns that
\* backend's answer for the same perm, is_active, include_superusers and obj.
C4_Dispatch ==
    (ret.op = "with_perm" /\ SelectedBackend(ret.args[4]) # "None") =>
        /\ ret.kind = "return"
        /\ ret.value =
            IF hasattr_with_perm(SelectedBackend(ret.args[4]))
            THEN backend_with_perm(SelectedBackend(ret.args[4]), ret.args[1],
                                   ret.args[2], ret.args[3], ret.args[5])
            ELSE none

C4_Witness ==
    /\ ret.op = "with_perm"
    /\ ret.args[4] = [type |-> "str", value |-> "auth.PermBackend"]
    /\ ret.args[2] = "False"
    /\ ret.value.qs = "backend"

\* C5 as stated: has_perm, has_perms and has_module_perms of an AnonymousUser
\* are False for every argument, the empty perm_list included; is_anonymous is
\* True and is_authenticated False.
C5_AlwaysFalse ==
    /\ ret.op \in {"has_perm", "has_perms", "has_module_perms"} => ret.value = "False"
    /\ ret.op = "is_anonymous" => ret.value = "True"
    /\ ret.op = "is_authenticated" => ret.value = "False"

\* C5 amended: has_perm and has_module_perms are False for every argument;
\* has_perms is False for every perm_list that is not empty and True for the
\* empty one; is_anonymous is True and is_authenticated False.
C5_FalseUnlessEmpty ==
    /\ ret.op \in {"has_perm", "has_module_perms"} => ret.value = "False"
    /\ ret.op = "has_perms" =>
        ret.value = (IF Len(ret.args[2]) = 0 THEN "True" ELSE "False")
    /\ ret.op = "is_anonymous" => ret.value = "True"
    /\ ret.op = "is_authenticated" => ret.value = "False"

C5_Witness ==
    /\ ret.op = "has_perms"
    /\ Len(ret.args[2]) >= 2
    /\ ret.value = "False"

AnonMutators == {"save", "delete", "set_password", "check_password"}

\* C6: save, delete, set_password and check_password of an AnonymousUser always
\* raise NotImplementedError and change neither the User table nor the
\* instance; no row of the User table is an anonymous identity, and every
\* instance keeps the class's fields.
C6_MutatorsRefused ==
    /\ [](/\ \A i \in DOMAIN anons : anons[i] = AnonymousUser
          /\ \A r \in users : r.id # "None" /\ r.username # "")
    /\ [][ret'.op \in AnonMutators
          => (ret'.kind = "NotImplementedError" /\ users' = users /\ anons' = anons)]_vars

C6_Witness ==
    /\ ret.op = "save"
    /\ ret.kind = "NotImplementedError"
    /\ Len(anons) >= 2

\* C7: an AnonymousUser equals every AnonymousUser instance and no value of
\* another class; all instances have the same hash; int() raises TypeError.
C7_Sentinel ==
    /\ ret.op = "__eq__" =>
        /\ ret.kind = "return"
        /\ ret.value = PyBool(ret.args[2].cls = "AnonymousUser")
    /\ ret.op = "__hash__" =>
        /\ ret.kind = "return"
        /\ \A other \in AnonInstances : __hash__(other).value = ret.value
    /\ ret.op = "__int__" => ret.kind = "TypeError"

C7_Witness ==
    /\ ret.op = "__eq__"
    /\ ret.args[2].cls = "AnonymousUser"
    /\ ret.args[2].oid # ret.args[1]
    /\ ret.value = "True"

\* C8: under every interleaving of concurrent get_or_create calls the table
\* holds at most one row of the application identity, every caller that has
\* returned holds that row, none is left with an error, and once the row
\* exists no call adds to the table or changes the row.
C8_GetOrCreate ==
    /\ [](/\ Cardinality({r \in creds : r.id = application_id}) <= 1
          /\ \A p \in 1..NumRequests :
                /\ pc[p] = "done" => result[p] \in creds
                /\ pc[p] # "raised")
    /\ [][creds # {} => creds' = creds]_vars

\* a request that lost the race (its create was refused) beside the winner
C8_Witness ==
    \E p, q \in 1..NumRequests :
        /\ pc[p] = "retry"
        /\ pc[q] = "done"
        /\ kwargs[p] # kwargs[q]
        /\ Cardinality(creds) = 1

\* C9: there is at most one OAuthUserSession row per user, and every row's
\* user is a row of the User table.
C9_OneSessionPerUser ==
    /\ \A s1, s2 \in sessions : s1.user = s2.user => s1 = s2
    /\ \A s \in sessions : \E u \in users : u.id = s.user

\* a user has been deleted, and an exchange has stored a session for another
C9_Witness ==
    /\ ret.op = "exchange"
    /\ next_id > Cardinality(users) + 1
    /\ Cardinality(sessions) = 1

Expired(self, time) ==
    \E t \in 0..MaxTime : ToString(t) = self.expires_at /\ t < time

Usable(self, time) ==
    /\ self.access_token # ""
    /\ self.expires_at # ""
    /\ ~Expired(self, time)

\* C10: is_valid() returns a boolean and never raises: False for a session
\* whose expires_at is past, whose expires_at is missing or whose tokens are
\* empty, True only for a session with tokens that has not expired.
C10_IsValid ==
    ret.op = "is_valid" =>
        /\ ret.kind = "return"
        /\ ret.value \in {"True", "False"}
        /\ ~Usable(ret.args[1], ret.args[2]) => ret.value = "False"

====
